---- MODULE Spec2Model ----
(***************************************************************************)
(* Model of the bar-interval parser (shared/utils.py parse_timeframe) and  *)
(* of the historical-bars endpoint (backend/main.py get_stock_bars and its *)
(* copy in backend/api/alpaca_client.py).                                  *)
(*                                                                         *)
(* Python strings that the code inspects character by character (the       *)
(* timeframe, the symbols, the timestamps) are sequences of one-character  *)
(* strings.  Messages built with f-strings are sequences of fragments:     *)
(* literal pieces of the format string and the characters or texts that    *)
(* are interpolated, concatenated with \o; "contains verbatim" is          *)
(* contiguous sub-sequence.                                                *)
(***************************************************************************)
EXTENDS Integers, Sequences, FiniteSets, TLC

VARIABLES
    tfStr,        \* parse_timeframe: the argument timeframe_str
    tfOut,        \* parse_timeframe: its outcome (Pending before the call)
    pc,           \* get_stock_bars: position of the handler
    req,          \* get_stock_bars: the query parameters of the call
    tf_object,    \* get_stock_bars: local tf_object
    start_dt,     \* get_stock_bars: local start_dt
    end_dt,       \* get_stock_bars: local end_dt
    symbol_list,  \* get_stock_bars: local symbol_list
    request,      \* get_stock_bars: local request (StockBarsRequest)
    providerLog,  \* requests received by data_client.get_stock_bars, in order
    bars,         \* get_stock_bars: what data_client.get_stock_bars answered
    df,           \* get_stock_bars: local df (bars.df)
    outcome       \* get_stock_bars: what the call ended in

vars == <<tfStr, tfOut, pc, req, tf_object, start_dt, end_dt, symbol_list,
          request, providerLog, bars, df, outcome>>

None == "None"
Nil == [kind |-> "None"]
Pending == [kind |-> "Pending"]
NoMatch == [matched |-> FALSE, groups |-> <<>>]

(***************************************************************************)
(* Characters and the helpers of Python's str / re / int that the code     *)
(* uses.                                                                   *)
(***************************************************************************)
Digits == {"0", "1", "2", "3", "4", "5", "6", "7", "8", "9"}

DigitVal(c) ==
    CASE c = "0" -> 0 [] c = "1" -> 1 [] c = "2" -> 2 [] c = "3" -> 3
      [] c = "4" -> 4 [] c = "5" -> 5 [] c = "6" -> 6 [] c = "7" -> 7
      [] c = "8" -> 8 [] c = "9" -> 9

\* a conversion that reads the leading digit only
int_first_digit(ds) == IF ds = <<>> THEN 0 ELSE DigitVal(ds[1])

\* int(amount) on a string of decimal digits
RECURSIVE int(_)
int(ds) ==
    IF ds = <<>> THEN 0
    ELSE 10 * int(SubSeq(ds, 1, Len(ds) - 1)) + DigitVal(ds[Len(ds)])

\* the greedy group (\d+): how many digits the string starts with, from position i
RECURSIVE DigitRun(_, _)
DigitRun(s, i) ==
    IF i <= Len(s) /\ s[i] \in Digits THEN 1 + DigitRun(s, i + 1) ELSE 0

StartsWith(s, tok) ==
    /\ Len(tok) <= Len(s)
    /\ SubSeq(s, 1, Len(tok)) = tok

\* the alternation (Min|Hour|Day|Week|Month), in the order it is tried
UnitTokens ==
    << <<"M", "i", "n">>,
       <<"H", "o", "u", "r">>,
       <<"D", "a", "y">>,
       <<"W", "e", "e", "k">>,
       <<"M", "o", "n", "t", "h">> >>

\* a match that steps over one leading blank
re_match_lstrip(s) ==
    LET lead == IF s # <<>> /\ s[1] = " " THEN 1 ELSE 0
        n == DigitRun(s, lead + 1)
        rest == SubSeq(s, lead + n + 1, Len(s))
        hits == {k \in 1..Len(UnitTokens) : StartsWith(rest, UnitTokens[k])}
    IN  IF n = 0 \/ hits = {} THEN NoMatch
        ELSE LET k == CHOOSE k \in hits : \A j \in hits : k <= j
             IN  [matched |-> TRUE,
                  groups |-> <<SubSeq(s, lead + 1, lead + n), UnitTokens[k]>>]

\* re.match(r"(\d+)(Min|Hour|Day|Week|Month)", s): anchored at the start of the
\* string only.  Giving digits back never helps: no unit token starts with a digit.
re_match(s) ==
    LET n == DigitRun(s, 1)
        rest == SubSeq(s, n + 1, Len(s))
        hits == {k \in 1..Len(UnitTokens) : StartsWith(rest, UnitTokens[k])}
    IN  IF n = 0 \/ hits = {} THEN NoMatch
        ELSE LET k == CHOOSE k \in hits : \A j \in hits : k <= j
             IN  [matched |-> TRUE, groups |-> <<SubSeq(s, 1, n), UnitTokens[k]>>]

TimeFrameUnits == {"Minute", "Hour", "Day", "Week", "Month"}

\* unit_map.get(unit_str) with Day and Week exchanged
unit_map_get_swapped(unit_str) ==
    CASE unit_str = <<"M", "i", "n">> -> "Minute"
      [] unit_str = <<"H", "o", "u", "r">> -> "Hour"
      [] unit_str = <<"D", "a", "y">> -> "Week"
      [] unit_str = <<"W", "e", "e", "k">> -> "Day"
      [] unit_str = <<"M", "o", "n", "t", "h">> -> "Month"
      [] OTHER -> None

\* unit_map.get(unit_str) of a map that has no entry for "Month"
unit_map_get_no_month(unit_str) ==
    CASE unit_str = <<"M", "i", "n">> -> "Minute"
      [] unit_str = <<"H", "o", "u", "r">> -> "Hour"
      [] unit_str = <<"D", "a", "y">> -> "Day"
      [] unit_str = <<"W", "e", "e", "k">> -> "Week"
      [] OTHER -> None

\* unit_map.get(unit_str)
unit_map_get(unit_str) ==
    CASE unit_str = <<"M", "i", "n">> -> "Minute"
      [] unit_str = <<"H", "o", "u", "r">> -> "Hour"
      [] unit_str = <<"D", "a", "y">> -> "Day"
      [] unit_str = <<"W", "e", "e", "k">> -> "Week"
      [] unit_str = <<"M", "o", "n", "t", "h">> -> "Month"
      [] OTHER -> None

ValueError(err, msg) == [kind |-> "ValueError", err |-> err, msg |-> msg]

\* the TimeFrame constructor without the validation it runs
TimeFrame_unvalidated(amount, unit) ==
    [kind |-> "TimeFrame", amount |-> amount, unit |-> unit]

\* TimeFrame(amount, unit): "The SDK's own validation will run inside the
\* TimeFrame constructor" (alpaca-py TimeFrame.validate_timeframe), which raises
\* ValueError for an amount the unit does not admit.
TimeFrame(amount, unit) ==
    IF amount <= 0
    THEN ValueError("SdkValidation", <<"Amount must be a positive integer value.">>)
    ELSE IF unit = "Minute" /\ amount > 59
    THEN ValueError("SdkValidation",
             <<"Second or Minute units can only be used with amounts between 1-59.">>)
    ELSE IF unit = "Hour" /\ amount > 23
    THEN ValueError("SdkValidation", <<"Hour units can only be used with amounts 1-23">>)
    ELSE IF unit \in {"Day", "Week"} /\ amount # 1
    THEN ValueError("SdkValidation",
             <<"Day and Week units can only be used with amount 1">>)
    ELSE IF unit = "Month" /\ amount \notin {1, 2, 3, 6, 12}
    THEN ValueError("SdkValidation",
             <<"Month units can only be used with amount 1, 2, 3, 6 and 12">>)
    ELSE [kind |-> "TimeFrame", amount |-> amount, unit |-> unit]

\* parse_timeframe(timeframe_str): a TimeFrame, or the ValueError it raises
parse_timeframe(timeframe_str) ==
    LET match == re_match(timeframe_str)
    IN  IF ~match.matched
        THEN ValueError("InvalidFormat",
                 <<"Invalid timeframe format: '">> \o timeframe_str
                 \o <<"'. Expected format like '1Min', '1Day', etc.">>)
        ELSE LET amount == int(match.groups[1])
                 unit == unit_map_get(match.groups[2])
             IN  IF unit = None
                 THEN ValueError("InvalidUnit",
                          <<"Invalid timeframe unit in '">> \o timeframe_str \o <<"'">>)
                 ELSE TimeFrame(amount, unit)

(***************************************************************************)
(* str.split(","), str.strip(), str.upper() as used on the symbols string. *)
(***************************************************************************)
Whitespace == {" ", "\t", "\n"}

\* str.upper() on one character
UpperChar(c) ==
    CASE c = "a" -> "A" [] c = "b" -> "B" [] c = "c" -> "C" [] c = "d" -> "D"
      [] c = "e" -> "E" [] c = "f" -> "F" [] c = "g" -> "G" [] c = "h" -> "H"
      [] c = "i" -> "I" [] c = "j" -> "J" [] c = "k" -> "K" [] c = "l" -> "L"
      [] c = "m" -> "M" [] c = "n" -> "N" [] c = "o" -> "O" [] c = "p" -> "P"
      [] c = "q" -> "Q" [] c = "r" -> "R" [] c = "s" -> "S" [] c = "t" -> "T"
      [] c = "u" -> "U" [] c = "v" -> "V" [] c = "w" -> "W" [] c = "x" -> "X"
      [] c = "y" -> "Y" [] c = "z" -> "Z"
      [] OTHER -> c

\* the pieces kept in the case they were typed in
upper_omitted(s) == s

\* str.upper()
upper(s) == [i \in 1..Len(s) |-> UpperChar(s[i])]

RECURSIVE lstrip(_)
lstrip(s) ==
    IF s # <<>> /\ s[1] \in Whitespace THEN lstrip(Tail(s)) ELSE s

RECURSIVE rstrip(_)
rstrip(s) ==
    IF s # <<>> /\ s[Len(s)] \in Whitespace
    THEN rstrip(SubSeq(s, 1, Len(s) - 1)) ELSE s

strip(s) == rstrip(lstrip(s))

\* s.split(","): the pieces between the commas, empty pieces included
RECURSIVE split(_)
split(s) ==
    IF \A i \in 1..Len(s) : s[i] # ","
    THEN <<s>>
    ELSE LET i == CHOOSE i \in 1..Len(s) :
                      s[i] = "," /\ \A j \in 1..(i - 1) : s[j] # ","
         IN  <<SubSeq(s, 1, i - 1)>> \o split(SubSeq(s, i + 1, Len(s)))

\* [f(x) for x in xs if keep(x)] with f = strip().upper(), keep = strip()
RECURSIVE strip_upper_nonempty(_)
strip_upper_nonempty(pieces) ==
    IF pieces = <<>> THEN <<>>
    ELSE LET rest == strip_upper_nonempty(Tail(pieces))
         IN  IF strip(Head(pieces)) # <<>>
             THEN <<upper(strip(Head(pieces)))>> \o rest
             ELSE rest

\* a normalization that keeps the first symbol only
normalize_symbols_first(symbols) ==
    LET list == strip_upper_nonempty(split(symbols))
    IN  IF list = <<>> THEN <<>> ELSE <<list[1]>>

\* symbol_list = [s.strip().upper() for s in symbols.split(",") if s.strip()]
normalize_symbols(symbols) == strip_upper_nonempty(split(symbols))

(***************************************************************************)
(* datetime.fromisoformat on the forms YYYY-MM-DD and YYYY-MM-DD?HH:MM:SS  *)
(* (any one character between date and time).                              *)
(***************************************************************************)
AllDigits(s) == \A i \in 1..Len(s) : s[i] \in Digits

IsLeap(y) == (y % 4 = 0 /\ y % 100 # 0) \/ y % 400 = 0

DaysInMonth(y, m) ==
    IF m = 2 THEN (IF IsLeap(y) THEN 29 ELSE 28)
    ELSE IF m \in {4, 6, 9, 11} THEN 30 ELSE 31

NoneDt == [kind |-> "None"]

InvalidIsoformat(s) ==
    ValueError("fromisoformat", <<"Invalid isoformat string: '">> \o s \o <<"'">>)

fromisoformat(s) ==
    LET dateShape ==
            /\ Len(s) \in {10, 19}
            /\ AllDigits(SubSeq(s, 1, 4)) /\ s[5] = "-"
            /\ AllDigits(SubSeq(s, 6, 7)) /\ s[8] = "-"
            /\ AllDigits(SubSeq(s, 9, 10))
        timeShape ==
            Len(s) = 19 =>
               /\ AllDigits(SubSeq(s, 12, 13)) /\ s[14] = ":"
               /\ AllDigits(SubSeq(s, 15, 16)) /\ s[17] = ":"
               /\ AllDigits(SubSeq(s, 18, 19))
    IN  IF ~(dateShape /\ timeShape) THEN InvalidIsoformat(s)
        ELSE LET y == int(SubSeq(s, 1, 4))
                 m == int(SubSeq(s, 6, 7))
                 d == int(SubSeq(s, 9, 10))
                 hh == IF Len(s) = 19 THEN int(SubSeq(s, 12, 13)) ELSE 0
                 mi == IF Len(s) = 19 THEN int(SubSeq(s, 15, 16)) ELSE 0
                 ss == IF Len(s) = 19 THEN int(SubSeq(s, 18, 19)) ELSE 0
             IN  IF y < 1 THEN ValueError("fromisoformat", <<"year 0 is out of range">>)
                 ELSE IF m \notin 1..12
                 THEN ValueError("fromisoformat", <<"month must be in 1..12">>)
                 ELSE IF d \notin 1..DaysInMonth(y, m)
                 THEN ValueError("fromisoformat", <<"day is out of range for month">>)
                 ELSE IF hh > 23
                 THEN ValueError("fromisoformat", <<"hour must be in 0..23">>)
                 ELSE IF mi > 59
                 THEN ValueError("fromisoformat", <<"minute must be in 0..59">>)
                 ELSE IF ss > 59
                 THEN ValueError("fromisoformat", <<"second must be in 0..59">>)
                 ELSE [kind |-> "datetime", year |-> y, month |-> m, day |-> d,
                       hour |-> hh, minute |-> mi, second |-> ss]

\* Optional[str] query parameters
Absent == [present |-> FALSE, text |-> <<>>]
Some(s) == [present |-> TRUE, text |-> s]

\* truth value of an Optional[str]: None and "" are false
Truthy(o) == o.present /\ o.text # <<>>

\* a conversion that puts the first day of 2024 where no bound is given
fromisoformat_or_default(o) ==
    IF Truthy(o) THEN fromisoformat(o.text)
    ELSE [kind |-> "datetime", year |-> 2024, month |-> 1, day |-> 1,
          hour |-> 0, minute |-> 0, second |-> 0]

\* datetime.fromisoformat(x) if x else None
optional_fromisoformat(o) == IF Truthy(o) THEN fromisoformat(o.text) ELSE NoneDt

(***************************************************************************)
(* The handler's outcomes.                                                 *)
(***************************************************************************)
NoOutcome == [kind |-> "None"]

HTTPException(status_code, detail) ==
    [kind |-> "HTTPException", status_code |-> status_code, detail |-> detail]

Return(output) == [kind |-> "return", output |-> output]

\* an exception no except clause of the handler catches
Uncaught(e) == [kind |-> "uncaught", exc |-> e]

\* the except clause of the parser block with the cause left out of the detail
timeframe_error_generic(e) == HTTPException(400, <<"Invalid timeframe">>)

\* except ValueError as e: raise HTTPException(status_code=400, detail=str(e))
timeframe_error(e) == HTTPException(400, e.msg)

\* the except clause of the provider block with the cause left out of the detail
sdk_error_generic(text) == HTTPException(500, <<"Alpaca SDK error">>)

\* except Exception as e:
\*     raise HTTPException(status_code=500, detail=f"Alpaca SDK error: {str(e)}")
sdk_error(text) == HTTPException(500, <<"Alpaca SDK error: ">> \o text)

(***************************************************************************)
(* StockBarsRequest: the SDK's request model validates the enumerated      *)
(* options when it is constructed.                                         *)
(***************************************************************************)
Adjustments == {"raw", "split", "dividend", "all"}
Sorts == {"asc", "desc"}
Feeds == {"iex", "sip", "delayed_sip", "otc", "boats", "overnight"}

NoRequest == [kind |-> "None"]

InvalidOptions(adjustment, sort, feed) ==
    (IF adjustment \notin Adjustments
     THEN <<"adjustment", " input_value=", adjustment>> ELSE <<>>)
    \o (IF sort \notin Sorts THEN <<"sort", " input_value=", sort>> ELSE <<>>)
    \o (IF feed.present /\ feed.text \notin Feeds
        THEN <<"feed", " input_value=", feed.text>> ELSE <<>>)

\* StockBarsRequest(symbol_or_symbols=..., timeframe=..., start=..., end=...,
\*                  limit=..., adjustment=..., sort=..., feed=...)
StockBarsRequest(symbols, timeframe, start, end, limit, adjustment, sort, feed) ==
    LET bad == InvalidOptions(adjustment, sort, feed)
    IN  IF bad # <<>>
        THEN [kind |-> "ValidationError",
              msg |-> <<"validation error for StockBarsRequest: ">> \o bad]
        ELSE [kind |-> "StockBarsRequest", symbol_or_symbols |-> symbols,
              timeframe |-> timeframe, start |-> start, end |-> end,
              limit |-> limit, adjustment |-> adjustment, sort |-> sort,
              feed |-> feed]

(***************************************************************************)
(* bars.df: a table with an index of one or two levels.                    *)
(***************************************************************************)
NoDf == [kind |-> "None"]

DataFrame(names, index) == [kind |-> "DataFrame", names |-> names, index |-> index]

\* df.empty
empty(frame) == Len(frame.index) = 0

\* "symbol" in df.index.names
has_symbol_level(frame) == \E i \in 1..Len(frame.names) : frame.names[i] = "symbol"

\* the position of the level "symbol" among df.index.names
symbol_level(frame) == CHOOSE i \in 1..Len(frame.names) : frame.names[i] = "symbol"

\* a selection that yields the matching rows last to first
RECURSIVE SelectSeq2_reversed(_, _, _)
SelectSeq2_reversed(rows, lvl, symbol) ==
    IF rows = <<>> THEN <<>>
    ELSE LET rest == SelectSeq2_reversed(Tail(rows), lvl, symbol)
         IN  IF Head(rows)[lvl] = symbol THEN rest \o <<Head(rows)>> ELSE rest

RECURSIVE SelectSeq2(_, _, _)
SelectSeq2(rows, lvl, symbol) ==
    IF rows = <<>> THEN <<>>
    ELSE LET rest == SelectSeq2(Tail(rows), lvl, symbol)
         IN  IF Head(rows)[lvl] = symbol THEN <<Head(rows)>> \o rest ELSE rest

\* df[df.index.get_level_values("symbol") == symbol]
filter_symbol(frame, symbol) ==
    DataFrame(frame.names, SelectSeq2(frame.index, symbol_level(frame), symbol))

\* df.reset_index().to_dict(orient="records"): one record per row, the index
\* levels as fields
to_records(frame) ==
    [i \in 1..Len(frame.index) |->
        [n \in {frame.names[k] : k \in 1..Len(frame.names)} |->
            frame.index[i][CHOOSE k \in 1..Len(frame.names) : frame.names[k] = n]]]

SymbolSet(list) == {list[i] : i \in 1..Len(list)}

\* the partition that leaves out the symbols no row belongs to
partition_skip_empty(frame, list) ==
    [symbol \in {y \in SymbolSet(list) :
                    /\ ~empty(frame)
                    /\ has_symbol_level(frame) =>
                           Len(filter_symbol(frame, y).index) > 0} |->
        IF has_symbol_level(frame)
        THEN to_records(filter_symbol(frame, symbol))
        ELSE to_records(frame)]

\* the partition that gives every symbol the whole table
partition_unfiltered(frame, list) ==
    [symbol \in SymbolSet(list) |-> IF empty(frame) THEN <<>> ELSE to_records(frame)]

\* the partition that attributes no row of a table without a symbol level
partition_drop_unlabelled(frame, list) ==
    [symbol \in SymbolSet(list) |->
        IF ~empty(frame) /\ has_symbol_level(frame)
        THEN to_records(filter_symbol(frame, symbol))
        ELSE <<>>]

\* output = {}; if not df.empty: for symbol in symbol_list: ... else: ...
partition(frame, list) ==
    [symbol \in SymbolSet(list) |->
        IF ~empty(frame)
        THEN IF has_symbol_level(frame)
             THEN to_records(filter_symbol(frame, symbol))
             ELSE to_records(frame)
        ELSE <<>>]

(***************************************************************************)
(* Inputs of the parser checks: prefix, digits, a token and a suffix.      *)
(***************************************************************************)
MaxDigits == 2

DigitChars == {"0", "1", "2", "3", "5", "6"}

RECURSIVE SeqsUpTo(_, _)
SeqsUpTo(S, n) ==
    IF n = 0 THEN {<<>>}
    ELSE LET shorter == SeqsUpTo(S, n - 1)
         IN  shorter \cup {Append(s, c) : s \in shorter, c \in S}

TfPrefixes == {<<>>, <<" ">>, <<"-">>}

TfTokens ==
    {UnitTokens[k] : k \in 1..Len(UnitTokens)}
    \cup {<<>>, <<"m", "i", "n">>, <<"D", "A", "Y">>, <<"a", "b", "c">>,
          <<" ", "M", "i", "n">>, <<"-", "M", "i", "n">>}

TfSuffixes == {<<>>, <<"s">>, <<"u", "t", "e", "s">>, <<" ">>, <<"1", "5">>}

\* the three-digit amount one hundred in front of every unit token
TfHundreds == {<<"1", "0", "0">> \o UnitTokens[k] : k \in 1..Len(UnitTokens)}

ParseInputs ==
    {p \o d \o t \o x :
        p \in TfPrefixes, d \in SeqsUpTo(DigitChars, MaxDigits),
        t \in TfTokens, x \in TfSuffixes}
    \cup TfHundreds

InitParse ==
    /\ tfStr \in ParseInputs
    /\ tfOut = Pending
    /\ pc = "idle"
    /\ req = Nil
    /\ tf_object = Nil
    /\ start_dt = NoneDt
    /\ end_dt = NoneDt
    /\ symbol_list = <<>>
    /\ request = NoRequest
    /\ providerLog = <<>>
    /\ bars = Nil
    /\ df = NoDf
    /\ outcome = NoOutcome

\* one call parse_timeframe(tfStr)
ParseCall ==
    /\ tfOut = Pending
    /\ tfOut' = parse_timeframe(tfStr)
    /\ UNCHANGED <<tfStr, pc, req, tf_object, start_dt, end_dt, symbol_list,
                   request, providerLog, bars, df, outcome>>

NextParse == ParseCall

SpecParse == InitParse /\ [][NextParse]_vars

(***************************************************************************)
(* get_stock_bars: the query parameters a call is made with, and what the  *)
(* data provider may answer.                                               *)
(***************************************************************************)
AAPL == <<"A", "A", "P", "L">>
TSLA == <<"T", "S", "L", "A">>

FetchSymbols ==
    { AAPL \o <<",">> \o TSLA,
      <<"a", "a", "p", "l">>,
      <<>>,
      <<" ", ",", " ">>,
      <<" ", "a", "a", "p", "l", ",", " ", ",", "t", "s", "l", "a", ",">>,
      <<"t", "s", "l", "a", " ", ",", "\t", "A", "A", "P", "L">>,
      AAPL \o <<",", "a", "a", "p", "l", ",", " ">> \o AAPL }

FetchTimeframes ==
    { <<"1", "5", "M", "i", "n">>,
      <<"5", "D", "a", "y", "s">>,
      <<"1", "5", "M", "i", "n", "u", "t", "e", "s">>,
      <<"a", "b", "c">> }

FetchStarts ==
    { Absent,
      Some(<<>>),
      Some(<<"2", "0", "2", "4", "-", "0", "1", "-", "1", "5">>),
      Some(<<"y", "e", "s", "t", "e", "r", "d", "a", "y">>) }

FetchEnds ==
    { Absent,
      Some(<<"2", "0", "2", "4", "-", "0", "2", "-", "2", "9", "T",
             "0", "9", ":", "3", "0", ":", "0", "0">>),
      Some(<<"2", "0", "2", "4", "-", "1", "3", "-", "0", "1">>) }

FetchAdjustments == {"raw", "bogus"}
FetchSorts == {"asc", "up"}
FetchFeeds == {Some("sip")}
FetchLimits == {1000}

MaxRows == 2

ProviderSymbols == {AAPL, TSLA}

\* str(e) of the errors the provider call raises
ProviderErrors == { <<"forbidden.">>, <<"too many requests.">> }

\* the tables bars.df may be: rows indexed by (symbol, timestamp), or by the
\* timestamp alone
ProviderFrames ==
    {DataFrame(<<"symbol", "timestamp">>, rows) :
        rows \in SeqsUpTo({<<y, t>> : y \in ProviderSymbols, t \in 1..MaxRows}, MaxRows)}
    \cup
    {DataFrame(<<"timestamp">>, rows) :
        rows \in SeqsUpTo({<<t>> : t \in 1..MaxRows}, MaxRows)}

\* data_client.get_stock_bars(request), one call per requested symbol
provider_calls_per_symbol(log, r) ==
    log \o [i \in 1..Len(r.symbol_or_symbols) |->
               [r EXCEPT !.symbol_or_symbols = <<r.symbol_or_symbols[i]>>]]

\* data_client.get_stock_bars(request): the provider receives the request
provider_calls(log, r) == Append(log, r)

Init ==
    /\ tfStr = <<>>
    /\ tfOut = Pending
    /\ pc = "idle"
    /\ req = Nil
    /\ tf_object = Nil
    /\ start_dt = NoneDt
    /\ end_dt = NoneDt
    /\ symbol_list = <<>>
    /\ request = NoRequest
    /\ providerLog = <<>>
    /\ bars = Nil
    /\ df = NoDf
    /\ outcome = NoOutcome

\* a call of the endpoint with its query parameters
Call ==
    /\ pc = "idle"
    /\ \E symbols \in FetchSymbols, timeframe \in FetchTimeframes,
          limit \in FetchLimits, adjustment \in FetchAdjustments,
          start \in FetchStarts, end \in FetchEnds,
          sort \in FetchSorts, feed \in FetchFeeds :
          req' = [kind |-> "call", symbols |-> symbols, timeframe |-> timeframe,
                  limit |-> limit, adjustment |-> adjustment, start |-> start,
                  end |-> end, sort |-> sort, feed |-> feed]
    /\ pc' = "parse_timeframe"
    /\ UNCHANGED <<tfStr, tfOut, tf_object, start_dt, end_dt, symbol_list,
                   request, providerLog, bars, df, outcome>>

\* try: tf_object = parse_timeframe(timeframe)
\* except ValueError as e: raise HTTPException(status_code=400, detail=str(e))
ParseTimeframe ==
    /\ pc = "parse_timeframe"
    /\ LET r == parse_timeframe(req.timeframe)
       IN  \/ /\ r.kind = "TimeFrame"
              /\ tf_object' = r
              /\ pc' = "fromisoformat"
              /\ UNCHANGED outcome
           \/ /\ r.kind = "ValueError"
              /\ outcome' = timeframe_error(r)
              /\ pc' = "done"
              /\ UNCHANGED tf_object
    /\ UNCHANGED <<tfStr, tfOut, req, start_dt, end_dt, symbol_list, request,
                   providerLog, bars, df>>

\* start_dt = ...; end_dt = ...; symbol_list = [...]: outside any try block
ParseTimestamps ==
    /\ pc = "fromisoformat"
    /\ LET s == optional_fromisoformat(req.start)
           e == optional_fromisoformat(req.end)
       IN  \/ /\ s.kind = "ValueError"
              /\ outcome' = Uncaught(s)
              /\ pc' = "done"
              /\ UNCHANGED <<start_dt, end_dt, symbol_list>>
           \/ /\ s.kind # "ValueError"
              /\ e.kind = "ValueError"
              /\ start_dt' = s
              /\ outcome' = Uncaught(e)
              /\ pc' = "done"
              /\ UNCHANGED <<end_dt, symbol_list>>
           \/ /\ s.kind # "ValueError"
              /\ e.kind # "ValueError"
              /\ start_dt' = s
              /\ end_dt' = e
              /\ symbol_list' = normalize_symbols(req.symbols)
              /\ pc' = "build"
              /\ UNCHANGED outcome
    /\ UNCHANGED <<tfStr, tfOut, req, tf_object, request, providerLog, bars, df>>

\* try: request = StockBarsRequest(...)   except Exception as e: raise 500
BuildRequest ==
    /\ pc = "build"
    /\ LET r == StockBarsRequest(symbol_list, tf_object, start_dt, end_dt,
                                 req.limit, req.adjustment, req.sort, req.feed)
       IN  \/ /\ r.kind = "ValidationError"
              /\ outcome' = sdk_error(r.msg)
              /\ pc' = "done"
              /\ UNCHANGED request
           \/ /\ r.kind = "StockBarsRequest"
              /\ request' = r
              /\ pc' = "provider"
              /\ UNCHANGED outcome
    /\ UNCHANGED <<tfStr, tfOut, req, tf_object, start_dt, end_dt, symbol_list,
                   providerLog, bars, df>>

\* bars = data_client.get_stock_bars(request); df = bars.df
\* except Exception as e: raise HTTPException(500, f"Alpaca SDK error: {str(e)}")
ProviderCall ==
    /\ pc = "provider"
    /\ providerLog' = provider_calls(providerLog, request)
    /\ \/ \E text \in ProviderErrors :
              /\ bars' = [kind |-> "APIError", text |-> text]
              /\ outcome' = sdk_error(text)
              /\ pc' = "done"
              /\ UNCHANGED df
       \/ \E frame \in ProviderFrames :
              /\ bars' = [kind |-> "BarSet", df |-> frame]
              /\ df' = frame
              /\ pc' = "partition"
              /\ UNCHANGED outcome
    /\ UNCHANGED <<tfStr, tfOut, req, tf_object, start_dt, end_dt, symbol_list,
                   request>>

\* output = {...}; return output
Partition ==
    /\ pc = "partition"
    /\ outcome' = Return(partition(df, symbol_list))
    /\ pc' = "done"
    /\ UNCHANGED <<tfStr, tfOut, req, tf_object, start_dt, end_dt, symbol_list,
                   request, providerLog, bars, df>>

\* the call is over; its locals are gone and the endpoint takes the next call
Finish ==
    /\ pc = "done"
    /\ pc' = "idle"
    /\ req' = Nil
    /\ tf_object' = Nil
    /\ start_dt' = NoneDt
    /\ end_dt' = NoneDt
    /\ symbol_list' = <<>>
    /\ request' = NoRequest
    /\ providerLog' = <<>>
    /\ bars' = Nil
    /\ df' = NoDf
    /\ outcome' = NoOutcome
    /\ UNCHANGED <<tfStr, tfOut>>

Next ==
    \/ Call
    \/ ParseTimeframe
    \/ ParseTimestamps
    \/ BuildRequest
    \/ ProviderCall
    \/ Partition
    \/ Finish

Spec == Init /\ [][Next]_vars

(***************************************************************************)
(* Several calls of get_stock_bars in flight at once: the endpoint is a    *)
(* plain def, which the framework runs on a thread pool.  Every call has   *)
(* its parameters and locals in a frame of its own; data_client is the one *)
(* object the calls share.  pc, req, bars and outcome are here functions   *)
(* of the call, the locals functions of the frame.                         *)
(***************************************************************************)
NumCalls == 2

Calls == 1..NumCalls

\* all calls working in the frame of the first
frame_shared(c) == 1

\* the frame that holds the locals of call c: one per invocation
frame_of(c) == c

\* the parameters of a call, limit, sort and feed at their defaults
Query(symbols, timeframe, adjustment, start, end) ==
    [kind |-> "call", symbols |-> symbols, timeframe |-> timeframe,
     limit |-> 1000, adjustment |-> adjustment, start |-> start, end |-> end,
     sort |-> "asc", feed |-> Some("sip")]

ConcRequests ==
    { Query(AAPL \o <<",">> \o TSLA, <<"1", "5", "M", "i", "n">>, "raw", Absent, Absent),
      Query(<<"a", "a", "p", "l">>, <<"1", "D", "a", "y">>, "raw",
            Some(<<"2", "0", "2", "4", "-", "0", "1", "-", "1", "5">>), Absent),
      Query(TSLA, <<"a", "b", "c">>, "raw", Absent, Absent),
      Query(TSLA, <<"1", "H", "o", "u", "r">>, "raw",
            Some(<<"y", "e", "s", "t", "e", "r", "d", "a", "y">>), Absent),
      Query(AAPL, <<"1", "5", "M", "i", "n">>, "raw", Absent,
            Some(<<"2", "0", "2", "4", "-", "1", "3", "-", "0", "1">>)),
      Query(AAPL, <<"1", "5", "M", "i", "n">>, "bogus", Absent, Absent) }

\* what the provider may answer a call in flight
ConcFrames ==
    { DataFrame(<<"symbol", "timestamp">>, <<<<AAPL, 1>>, <<TSLA, 1>>>>),
      DataFrame(<<"timestamp">>, <<<<1>>>>) }

InitConc ==
    /\ tfStr = <<>>
    /\ tfOut = Pending
    /\ pc = [c \in Calls |-> "idle"]
    /\ req = [c \in Calls |-> Nil]
    /\ tf_object = [c \in Calls |-> Nil]
    /\ start_dt = [c \in Calls |-> NoneDt]
    /\ end_dt = [c \in Calls |-> NoneDt]
    /\ symbol_list = [c \in Calls |-> <<>>]
    /\ request = [c \in Calls |-> NoRequest]
    /\ providerLog = <<>>
    /\ bars = [c \in Calls |-> Nil]
    /\ df = [c \in Calls |-> NoDf]
    /\ outcome = [c \in Calls |-> NoOutcome]

\* call c of the endpoint arrives with its query parameters
ConcCall(c) ==
    /\ pc[c] = "idle"
    /\ \E r \in ConcRequests : req' = [req EXCEPT ![c] = r]
    /\ pc' = [pc EXCEPT ![c] = "parse_timeframe"]
    /\ UNCHANGED <<tfStr, tfOut, tf_object, start_dt, end_dt, symbol_list,
                   request, providerLog, bars, df, outcome>>

\* try: tf_object = parse_timeframe(timeframe)
\* except ValueError as e: raise HTTPException(status_code=400, detail=str(e))
ConcParseTimeframe(c) ==
    /\ pc[c] = "parse_timeframe"
    /\ LET r == parse_timeframe(req[c].timeframe)
       IN  \/ /\ r.kind = "TimeFrame"
              /\ tf_object' = [tf_object EXCEPT ![frame_of(c)] = r]
              /\ pc' = [pc EXCEPT ![c] = "fromisoformat"]
              /\ UNCHANGED outcome
           \/ /\ r.kind = "ValueError"
              /\ outcome' = [outcome EXCEPT ![c] = timeframe_error(r)]
              /\ pc' = [pc EXCEPT ![c] = "done"]
              /\ UNCHANGED tf_object
    /\ UNCHANGED <<tfStr, tfOut, req, start_dt, end_dt, symbol_list, request,
                   providerLog, bars, df>>

\* start_dt = ...; end_dt = ...; symbol_list = [...]: outside any try block
ConcParseTimestamps(c) ==
    /\ pc[c] = "fromisoformat"
    /\ LET s == optional_fromisoformat(req[c].start)
           e == optional_fromisoformat(req[c].end)
       IN  \/ /\ s.kind = "ValueError"
              /\ outcome' = [outcome EXCEPT ![c] = Uncaught(s)]
              /\ pc' = [pc EXCEPT ![c] = "done"]
              /\ UNCHANGED <<start_dt, end_dt, symbol_list>>
           \/ /\ s.kind # "ValueError"
              /\ e.kind = "ValueError"
              /\ start_dt' = [start_dt EXCEPT ![frame_of(c)] = s]
              /\ outcome' = [outcome EXCEPT ![c] = Uncaught(e)]
              /\ pc' = [pc EXCEPT ![c] = "done"]
              /\ UNCHANGED <<end_dt, symbol_list>>
           \/ /\ s.kind # "ValueError"
              /\ e.kind # "ValueError"
              /\ start_dt' = [start_dt EXCEPT ![frame_of(c)] = s]
              /\ end_dt' = [end_dt EXCEPT ![frame_of(c)] = e]
              /\ symbol_list' =
                    [symbol_list EXCEPT ![frame_of(c)] = normalize_symbols(req[c].symbols)]
              /\ pc' = [pc EXCEPT ![c] = "build"]
              /\ UNCHANGED outcome
    /\ UNCHANGED <<tfStr, tfOut, req, tf_object, request, providerLog, bars, df>>

\* try: request = StockBarsRequest(...)   except Exception as e: raise 500
ConcBuildRequest(c) ==
    /\ pc[c] = "build"
    /\ LET r == StockBarsRequest(symbol_list[frame_of(c)], tf_object[frame_of(c)],
                                 start_dt[frame_of(c)], end_dt[frame_of(c)], req[c].limit,
                                 req[c].adjustment, req[c].sort, req[c].feed)
       IN  \/ /\ r.kind = "ValidationError"
              /\ outcome' = [outcome EXCEPT ![c] = sdk_error(r.msg)]
              /\ pc' = [pc EXCEPT ![c] = "done"]
              /\ UNCHANGED request
           \/ /\ r.kind = "StockBarsRequest"
              /\ request' = [request EXCEPT ![frame_of(c)] = r]
              /\ pc' = [pc EXCEPT ![c] = "provider"]
              /\ UNCHANGED outcome
    /\ UNCHANGED <<tfStr, tfOut, req, tf_object, start_dt, end_dt, symbol_list,
                   providerLog, bars, df>>

\* bars = data_client.get_stock_bars(request); df = bars.df, on the shared client
\* except Exception as e: raise HTTPException(500, f"Alpaca SDK error: {str(e)}")
ConcProviderCall(c) ==
    /\ pc[c] = "provider"
    /\ providerLog' = provider_calls(providerLog, request[frame_of(c)])
    /\ \/ \E text \in ProviderErrors :
              /\ bars' = [bars EXCEPT ![c] = [kind |-> "APIError", text |-> text]]
              /\ outcome' = [outcome EXCEPT ![c] = sdk_error(text)]
              /\ pc' = [pc EXCEPT ![c] = "done"]
              /\ UNCHANGED df
       \/ \E answer \in ConcFrames :
              /\ bars' = [bars EXCEPT ![c] = [kind |-> "BarSet", df |-> answer]]
              /\ df' = [df EXCEPT ![frame_of(c)] = answer]
              /\ pc' = [pc EXCEPT ![c] = "partition"]
              /\ UNCHANGED outcome
    /\ UNCHANGED <<tfStr, tfOut, req, tf_object, start_dt, end_dt, symbol_list,
                   request>>

\* output = {...}; return output
ConcPartition(c) ==
    /\ pc[c] = "partition"
    /\ outcome' = [outcome EXCEPT
                      ![c] = Return(partition(df[frame_of(c)], symbol_list[frame_of(c)]))]
    /\ pc' = [pc EXCEPT ![c] = "done"]
    /\ UNCHANGED <<tfStr, tfOut, req, tf_object, start_dt, end_dt, symbol_list,
                   request, providerLog, bars, df>>

NextConc ==
    \E c \in Calls :
        \/ ConcCall(c)
        \/ ConcParseTimeframe(c)
        \/ ConcParseTimestamps(c)
        \/ ConcBuildRequest(c)
        \/ ConcProviderCall(c)
        \/ ConcPartition(c)

SpecConc == InitConc /\ [][NextConc]_vars

(***************************************************************************)
(* The second call site: get_stock_bars of backend/api/alpaca_client.py,   *)
(* registered on a router, with a data_client of its own.  Its steps are   *)
(* written from its own source; both sites run here on the same query      *)
(* parameters, and the provider answers both the same way.                 *)
(***************************************************************************)
\* except ValueError as e: raise HTTPException(status_code=400, detail=str(e))
router_timeframe_error(e) == HTTPException(400, e.msg)

\* datetime.fromisoformat(x) if x else None
router_optional_fromisoformat(o) ==
    IF o.present /\ o.text # <<>> THEN fromisoformat(o.text) ELSE NoneDt

\* symbol_list = [s.strip().upper() for s in symbols.split(",") if s.strip()]
router_normalize_symbols(symbols) == strip_upper_nonempty(split(symbols))

\* except Exception as e:
\*     raise HTTPException(status_code=500, detail=f"Alpaca SDK error: {str(e)}")
router_sdk_error(text) == HTTPException(500, <<"Alpaca SDK error: ">> \o text)

\* bars = data_client.get_stock_bars(request)
router_provider_calls(log, r) == log \o <<r>>

\* output = {}; if not df.empty: for symbol in symbol_list: ... else: ...
router_partition(table, list) ==
    IF ~empty(table)
    THEN [symbol \in SymbolSet(list) |->
             IF has_symbol_level(table)
             THEN to_records(filter_symbol(table, symbol))
             ELSE to_records(table)]
    ELSE [symbol \in SymbolSet(list) |-> <<>>]

Sites == {"main", "router"}

InitSites ==
    /\ tfStr = <<>>
    /\ tfOut = Pending
    /\ pc = [s \in Sites |-> "idle"]
    /\ req = Nil
    /\ tf_object = [s \in Sites |-> Nil]
    /\ start_dt = [s \in Sites |-> NoneDt]
    /\ end_dt = [s \in Sites |-> NoneDt]
    /\ symbol_list = [s \in Sites |-> <<>>]
    /\ request = [s \in Sites |-> NoRequest]
    /\ providerLog = [s \in Sites |-> <<>>]
    /\ bars = Nil
    /\ df = [s \in Sites |-> NoDf]
    /\ outcome = [s \in Sites |-> NoOutcome]

\* the same call arrives at both sites
SitesCall ==
    /\ \A s \in Sites : pc[s] = "idle"
    /\ \E symbols \in FetchSymbols, timeframe \in FetchTimeframes,
          limit \in FetchLimits, adjustment \in FetchAdjustments,
          start \in FetchStarts, end \in FetchEnds,
          sort \in FetchSorts, feed \in FetchFeeds :
          req' = [kind |-> "call", symbols |-> symbols, timeframe |-> timeframe,
                  limit |-> limit, adjustment |-> adjustment, start |-> start,
                  end |-> end, sort |-> sort, feed |-> feed]
    /\ pc' = [s \in Sites |-> "parse_timeframe"]
    /\ UNCHANGED <<tfStr, tfOut, tf_object, start_dt, end_dt, symbol_list,
                   request, providerLog, bars, df, outcome>>

\* try: tf_object = parse_timeframe(timeframe)
\* except ValueError as e: raise HTTPException(status_code=400, detail=str(e))
SiteParseTimeframe(s) ==
    /\ pc[s] = "parse_timeframe"
    /\ LET r == parse_timeframe(req.timeframe)
       IN  \/ /\ r.kind = "TimeFrame"
              /\ tf_object' = [tf_object EXCEPT ![s] = r]
              /\ pc' = [pc EXCEPT ![s] = "fromisoformat"]
              /\ UNCHANGED outcome
           \/ /\ r.kind = "ValueError"
              /\ outcome' = [outcome EXCEPT
                                ![s] = IF s = "main" THEN timeframe_error(r)
                                       ELSE router_timeframe_error(r)]
              /\ pc' = [pc EXCEPT ![s] = "done"]
              /\ UNCHANGED tf_object
    /\ UNCHANGED <<tfStr, tfOut, req, start_dt, end_dt, symbol_list, request,
                   providerLog, bars, df>>

\* start_dt = ...; end_dt = ...; symbol_list = [...]: outside any try block
SiteParseTimestamps(s) ==
    /\ pc[s] = "fromisoformat"
    /\ LET b == IF s = "main" THEN optional_fromisoformat(req.start)
                ELSE router_optional_fromisoformat(req.start)
           e == IF s = "main" THEN optional_fromisoformat(req.end)
                ELSE router_optional_fromisoformat(req.end)
           list == IF s = "main" THEN normalize_symbols(req.symbols)
                   ELSE router_normalize_symbols(req.symbols)
       IN  \/ /\ b.kind = "ValueError"
              /\ outcome' = [outcome EXCEPT ![s] = Uncaught(b)]
              /\ pc' = [pc EXCEPT ![s] = "done"]
              /\ UNCHANGED <<start_dt, end_dt, symbol_list>>
           \/ /\ b.kind # "ValueError"
              /\ e.kind = "ValueError"
              /\ start_dt' = [start_dt EXCEPT ![s] = b]
              /\ outcome' = [outcome EXCEPT ![s] = Uncaught(e)]
              /\ pc' = [pc EXCEPT ![s] = "done"]
              /\ UNCHANGED <<end_dt, symbol_list>>
           \/ /\ b.kind # "ValueError"
              /\ e.kind # "ValueError"
              /\ start_dt' = [start_dt EXCEPT ![s] = b]
              /\ end_dt' = [end_dt EXCEPT ![s] = e]
              /\ symbol_list' = [symbol_list EXCEPT ![s] = list]
              /\ pc' = [pc EXCEPT ![s] = "build"]
              /\ UNCHANGED outcome
    /\ UNCHANGED <<tfStr, tfOut, req, tf_object, request, providerLog, bars, df>>

\* try: request = StockBarsRequest(...)   except Exception as e: raise 500
SiteBuildRequest(s) ==
    /\ pc[s] = "build"
    /\ LET r == StockBarsRequest(symbol_list[s], tf_object[s], start_dt[s],
                                 end_dt[s], req.limit, req.adjustment, req.sort,
                                 req.feed)
       IN  \/ /\ r.kind = "ValidationError"
              /\ outcome' = [outcome EXCEPT
                                ![s] = IF s = "main" THEN sdk_error(r.msg)
                                       ELSE router_sdk_error(r.msg)]
              /\ pc' = [pc EXCEPT ![s] = "done"]
              /\ UNCHANGED request
           \/ /\ r.kind = "StockBarsRequest"
              /\ request' = [request EXCEPT ![s] = r]
              /\ pc' = [pc EXCEPT ![s] = "provider"]
              /\ UNCHANGED outcome
    /\ UNCHANGED <<tfStr, tfOut, req, tf_object, start_dt, end_dt, symbol_list,
                   providerLog, bars, df>>

\* what the provider may answer: anything to the site that asks first, the same
\* again to the other
SiteAnswers ==
    IF bars = Nil
    THEN {[kind |-> "APIError", text |-> text] : text \in ProviderErrors}
         \cup {[kind |-> "BarSet", df |-> table] : table \in ProviderFrames}
    ELSE {bars}

\* bars = data_client.get_stock_bars(request); df = bars.df
\* except Exception as e: raise HTTPException(500, f"Alpaca SDK error: {str(e)}")
SiteProviderCall(s) ==
    /\ pc[s] = "provider"
    /\ providerLog' =
          [providerLog EXCEPT
              ![s] = IF s = "main" THEN provider_calls(providerLog[s], request[s])
                     ELSE router_provider_calls(providerLog[s], request[s])]
    /\ \E answer \in SiteAnswers :
          /\ bars' = answer
          /\ \/ /\ answer.kind = "APIError"
                /\ outcome' = [outcome EXCEPT
                                  ![s] = IF s = "main" THEN sdk_error(answer.text)
                                         ELSE router_sdk_error(answer.text)]
                /\ pc' = [pc EXCEPT ![s] = "done"]
                /\ UNCHANGED df
             \/ /\ answer.kind = "BarSet"
                /\ df' = [df EXCEPT ![s] = answer.df]
                /\ pc' = [pc EXCEPT ![s] = "partition"]
                /\ UNCHANGED outcome
    /\ UNCHANGED <<tfStr, tfOut, req, tf_object, start_dt, end_dt, symbol_list,
                   request>>

\* output = {...}; return output
SitePartition(s) ==
    /\ pc[s] = "partition"
    /\ outcome' = [outcome EXCEPT
                      ![s] = IF s = "main"
                             THEN Return(partition(df[s], symbol_list[s]))
                             ELSE Return(router_partition(df[s], symbol_list[s]))]
    /\ pc' = [pc EXCEPT ![s] = "done"]
    /\ UNCHANGED <<tfStr, tfOut, req, tf_object, start_dt, end_dt, symbol_list,
                   request, providerLog, bars, df>>

NextSites ==
    \/ SitesCall
    \/ \E s \in Sites :
          \/ SiteParseTimeframe(s)
          \/ SiteParseTimestamps(s)
          \/ SiteBuildRequest(s)
          \/ SiteProviderCall(s)
          \/ SitePartition(s)

SpecSites == InitSites /\ [][NextSites]_vars

(***************************************************************************)
(* The trading pass-through endpoints of backend/main.py and place_order   *)
(* of backend/api/alpaca_client.py.  req is the endpoint called with its   *)
(* parameters, request the SDK request object the handler builds,          *)
(* providerLog the calls trading_client receives, bars what the provider   *)
(* answers: a value, or an exception with its str(e).                      *)
(***************************************************************************)
\* str.lower() on one character
LowerChar(c) ==
    CASE c = "A" -> "a" [] c = "B" -> "b" [] c = "C" -> "c" [] c = "D" -> "d"
      [] c = "E" -> "e" [] c = "F" -> "f" [] c = "G" -> "g" [] c = "H" -> "h"
      [] c = "I" -> "i" [] c = "J" -> "j" [] c = "K" -> "k" [] c = "L" -> "l"
      [] c = "M" -> "m" [] c = "N" -> "n" [] c = "O" -> "o" [] c = "P" -> "p"
      [] c = "Q" -> "q" [] c = "R" -> "r" [] c = "S" -> "s" [] c = "T" -> "t"
      [] c = "U" -> "u" [] c = "V" -> "v" [] c = "W" -> "w" [] c = "X" -> "x"
      [] c = "Y" -> "y" [] c = "Z" -> "z"
      [] OTHER -> c

\* str.lower()
lower(s) == [i \in 1..Len(s) |-> LowerChar(s[i])]

\* model.dict(): the fields of an SDK model object
dict(o) == o.fields

\* [x.dict() for x in xs]
dicts(xs) == [i \in 1..Len(xs) |-> dict(xs[i])]

Raise(text) == [kind |-> "raise", text |-> text]
Value(v) == [kind |-> "value", value |-> v]

\* str(e) of the errors a call of trading_client raises
TradingErrors == { <<"forbidden.">>, <<"insufficient buying power">> }

\* get_all_assets takes a filter object; called with status= and asset_class= it
\* may raise before anything is sent
AssetsTypeError ==
    <<"TradingClient.get_all_assets() got an unexpected keyword argument 'status'">>

Model(name, fields) == [kind |-> name, fields |-> fields]

TradeAccounts == { Model("TradeAccount", [status |-> "ACTIVE"]) }

PositionLists ==
    { <<>>,
      << Model("Position", [symbol |-> AAPL, qty |-> 1]) >>,
      << Model("Position", [symbol |-> TSLA, qty |-> 2]),
         Model("Position", [symbol |-> AAPL, qty |-> 1]) >> }

OrderLists ==
    { <<>>, << Model("Order", [id |-> "o1", symbol |-> AAPL]) >> }

AssetLists ==
    { <<>>, << Model("Asset", [symbol |-> AAPL, tradable |-> TRUE]) >> }

\* what the provider returns for a submitted order
Order(order_data) ==
    Model("Order", [id |-> "o1", symbol |-> order_data.symbol,
                    qty |-> order_data.qty, side |-> order_data.side])

OrderSides == { <<"b", "u", "y">>, <<"s", "e", "l", "l">> }
OrderTypes == {"market", "limit", "stop", "stop_limit", "trailing_stop"}
TimesInForce == {"day", "gtc", "opg", "cls", "ioc", "fok"}

\* OrderRequest(symbol=..., qty=..., side=..., type=..., time_in_force=...): the
\* SDK's request model validates the enumerated fields when it is constructed
OrderRequest(symbol, qty, side, type, time_in_force) ==
    IF side \notin OrderSides \/ type \notin OrderTypes
       \/ time_in_force \notin TimesInForce
    THEN [kind |-> "ValidationError",
          msg |-> <<"validation error for OrderRequest">>]
    ELSE [kind |-> "OrderRequest", symbol |-> symbol, qty |-> qty, side |-> side,
          type |-> type, time_in_force |-> time_in_force]

\* GetOrdersRequest(status=status.lower(), limit=limit)
GetOrdersRequest(status, limit) ==
    [kind |-> "GetOrdersRequest", status |-> status, limit |-> limit]

\* the parameters the endpoints are called with
OrderStatuses == { <<"a", "l", "l">>, <<"o", "p", "e", "n">> }
OrderLimits == {50}
PayloadSymbols == { <<"a", "a", "p", "l">>, <<"T", "s", "l", "a">> }
PayloadQtys == {1, 10}
PayloadSides == { <<"b", "u", "y">>, <<"S", "E", "L", "L">>, <<"h", "o", "l", "d">> }
PayloadTypes == {"market", "limit"}
PayloadTimesInForce == {"day", "gtc"}
OrderIds == {"o1", "o2"}
AssetStatuses == {"active"}
AssetClasses == {"us_equity"}

\* a submission that is tried again after it failed
submit_with_retry(log, call, answer) ==
    IF answer.kind = "raise" THEN log \o <<call, call>> ELSE Append(log, call)

\* trading_client.<method>(...): the provider receives the call, once
trading_calls(log, call, answer) == Append(log, call)

\* the except clause of a pass-through endpoint with the cause left out
pass_through_error_generic(text) == HTTPException(500, <<"Internal Server Error">>)

\* except Exception as e: raise HTTPException(status_code=500, detail=str(e))
pass_through_error(text) == HTTPException(500, text)

\* except Exception as e:
\*     raise HTTPException(status_code=500, detail=f"Alpaca API error: {str(e)}")
order_error(text) == HTTPException(500, <<"Alpaca API error: ">> \o text)

InitTrading ==
    /\ tfStr = <<>>
    /\ tfOut = Pending
    /\ pc = "idle"
    /\ req = Nil
    /\ tf_object = Nil
    /\ start_dt = NoneDt
    /\ end_dt = NoneDt
    /\ symbol_list = <<>>
    /\ request = NoRequest
    /\ providerLog = <<>>
    /\ bars = Nil
    /\ df = NoDf
    /\ outcome = NoOutcome

\* GET /account
get_account ==
    /\ pc = "idle"
    /\ req' = [endpoint |-> "get_account"]
    /\ \E answer \in {Raise(e) : e \in TradingErrors}
                     \cup {Value(a) : a \in TradeAccounts} :
          /\ providerLog' = trading_calls(providerLog, [method |-> "get_account"], answer)
          /\ bars' = answer
          /\ outcome' = IF answer.kind = "raise" THEN pass_through_error(answer.text)
                        ELSE Return([account |-> dict(answer.value)])
    /\ pc' = "done"
    /\ UNCHANGED <<tfStr, tfOut, tf_object, start_dt, end_dt, symbol_list, request, df>>

\* GET /positions
get_positions ==
    /\ pc = "idle"
    /\ req' = [endpoint |-> "get_positions"]
    /\ \E answer \in {Raise(e) : e \in TradingErrors}
                     \cup {Value(l) : l \in PositionLists} :
          /\ providerLog' =
                trading_calls(providerLog, [method |-> "get_all_positions"], answer)
          /\ bars' = answer
          /\ outcome' = IF answer.kind = "raise" THEN pass_through_error(answer.text)
                        ELSE Return([positions |-> dicts(answer.value)])
    /\ pc' = "done"
    /\ UNCHANGED <<tfStr, tfOut, tf_object, start_dt, end_dt, symbol_list, request, df>>

\* GET /orders
get_orders ==
    /\ pc = "idle"
    /\ \E status \in OrderStatuses, limit \in OrderLimits :
          LET filter == GetOrdersRequest(lower(status), limit)
          IN  /\ req' = [endpoint |-> "get_orders", status |-> status, limit |-> limit]
              /\ request' = filter
              /\ \E answer \in {Raise(e) : e \in TradingErrors}
                               \cup {Value(l) : l \in OrderLists} :
                    /\ providerLog' =
                          trading_calls(providerLog,
                              [method |-> "get_orders", filter |-> filter], answer)
                    /\ bars' = answer
                    /\ outcome' =
                          IF answer.kind = "raise" THEN pass_through_error(answer.text)
                          ELSE Return([orders |-> dicts(answer.value)])
    /\ pc' = "done"
    /\ UNCHANGED <<tfStr, tfOut, tf_object, start_dt, end_dt, symbol_list, df>>

\* POST /orders, at either call site: site is "main" or "router"
submit(site, payload) ==
    LET order_data == OrderRequest(upper(payload.symbol), payload.qty,
                                   lower(payload.side), payload.type,
                                   payload.time_in_force)
    IN  /\ req' = [endpoint |-> "place_order", site |-> site, payload |-> payload]
        /\ \/ /\ order_data.kind = "ValidationError"
              /\ outcome' = Uncaught(order_data)
              /\ UNCHANGED <<request, providerLog, bars>>
           \/ /\ order_data.kind = "OrderRequest"
              /\ request' = order_data
              /\ \E answer \in {Raise(e) : e \in TradingErrors}
                               \cup {Value(Order(order_data))} :
                    /\ providerLog' =
                          trading_calls(providerLog,
                              [method |-> "submit_order", order_data |-> order_data],
                              answer)
                    /\ bars' = answer
                    /\ outcome' =
                          IF answer.kind = "raise" THEN order_error(answer.text)
                          ELSE Return([order |-> dict(answer.value)])

Payloads ==
    [symbol : PayloadSymbols, qty : PayloadQtys, side : PayloadSides,
     type : PayloadTypes, time_in_force : PayloadTimesInForce]

\* POST /orders of backend/main.py
place_order ==
    /\ pc = "idle"
    /\ \E payload \in Payloads : submit("main", payload)
    /\ pc' = "done"
    /\ UNCHANGED <<tfStr, tfOut, tf_object, start_dt, end_dt, symbol_list, df>>

\* POST /orders of backend/api/alpaca_client.py
router_place_order ==
    /\ pc = "idle"
    /\ \E payload \in Payloads : submit("router", payload)
    /\ pc' = "done"
    /\ UNCHANGED <<tfStr, tfOut, tf_object, start_dt, end_dt, symbol_list, df>>

\* POST /cancel_order/{order_id}
cancel_order ==
    /\ pc = "idle"
    /\ \E order_id \in OrderIds :
          /\ req' = [endpoint |-> "cancel_order", order_id |-> order_id]
          /\ \E answer \in {Raise(e) : e \in TradingErrors} \cup {Value(None)} :
                /\ providerLog' =
                      trading_calls(providerLog,
                          [method |-> "cancel_order_by_id", order_id |-> order_id],
                          answer)
                /\ bars' = answer
                /\ outcome' =
                      IF answer.kind = "raise" THEN pass_through_error(answer.text)
                      ELSE Return([status |-> "cancelled", order_id |-> order_id])
    /\ pc' = "done"
    /\ UNCHANGED <<tfStr, tfOut, tf_object, start_dt, end_dt, symbol_list, request, df>>

\* GET /assets
get_assets ==
    /\ pc = "idle"
    /\ \E status \in AssetStatuses, asset_class \in AssetClasses :
          /\ req' = [endpoint |-> "get_assets", status |-> status,
                     asset_class |-> asset_class]
          /\ \E answer \in {Raise(e) : e \in TradingErrors \cup {AssetsTypeError}}
                           \cup {Value(l) : l \in AssetLists} :
                /\ providerLog' =
                      trading_calls(providerLog,
                          [method |-> "get_all_assets", status |-> status,
                           asset_class |-> asset_class], answer)
                /\ bars' = answer
                /\ outcome' =
                      IF answer.kind = "raise" THEN pass_through_error(answer.text)
                      ELSE Return([assets |-> dicts(answer.value)])
    /\ pc' = "done"
    /\ UNCHANGED <<tfStr, tfOut, tf_object, start_dt, end_dt, symbol_list, request, df>>

\* the request is answered; the endpoints take the next one
TradingFinish ==
    /\ pc = "done"
    /\ pc' = "idle"
    /\ req' = Nil
    /\ request' = NoRequest
    /\ providerLog' = <<>>
    /\ bars' = Nil
    /\ outcome' = NoOutcome
    /\ UNCHANGED <<tfStr, tfOut, tf_object, start_dt, end_dt, symbol_list, df>>

NextTrading ==
    \/ get_account
    \/ get_positions
    \/ get_orders
    \/ place_order
    \/ router_place_order
    \/ cancel_order
    \/ get_assets
    \/ TradingFinish

SpecTrading == InitTrading /\ [][NextTrading]_vars

(***************************************************************************)
(* The Finnhub endpoints of backend/api/finnhub_client.py.  providerLog    *)
(* holds the calls finnhub_client receives, bars what it answers.          *)
(***************************************************************************)
\* the names bound at module level: the imports, the classes, the client, the
\* router and the endpoints; nothing binds retry_api_call
ModuleGlobals ==
    {"os", "Path", "sys", "APIRouter", "HTTPException", "Query", "Optional", "List",
     "Dict", "Any", "finnhub", "requests", "datetime", "timedelta", "BaseModel",
     "time", "FINNHUB_API_KEY", "finnhub_client", "router", "StockSymbol",
     "StockQuote", "ping", "get_all_stocks", "get_company_profile"}

\* what evaluating a global name gives: the object bound to it, or NameError
LoadGlobal(name) ==
    IF name \in ModuleGlobals THEN [kind |-> "object", name |-> name]
    ELSE [kind |-> "NameError", msg |-> <<"name '", name, "' is not defined">>]

\* HTTPException(detail=...): status_code is a required argument of the
\* constructor, so the call raises TypeError instead of building the exception
HTTPException_detail_only(detail) ==
    [kind |-> "TypeError",
     msg |-> <<"HTTPException.__init__() missing 1 required positional argument: ",
               "'status_code'">>]

\* str(e) of the errors a call of finnhub_client raises
FinnhubErrors == { <<"FinnhubAPIException(status_code: 429): API limit reached.">>,
                   <<"connection timed out">> }

\* the stocks the provider lists
Stocks == { [symbol |-> AAPL, mic |-> "XNAS"], [symbol |-> TSLA, mic |-> "XNAS"],
            [symbol |-> <<"M", "S", "F", "T">>, mic |-> "XNAS"],
            [symbol |-> <<"A", "M", "Z", "N">>, mic |-> "XNAS"] }

StockLists == SeqsUpTo(Stocks, MaxRows)

\* the profile the provider has for a symbol
company_profile2(symbol) == [name |-> <<"profile of ">> \o symbol, ticker |-> symbol]

Exchanges == { <<"U", "S">>, <<"u", "s">>, <<"T", "O">>, <<"l">>, <<>> }

ProfileSymbols == { AAPL, <<"a", "a", "p", "l">>, <<"t", "S", "l", "A">> }

InitFinnhub ==
    /\ tfStr = <<>>
    /\ tfOut = Pending
    /\ pc = "idle"
    /\ req = Nil
    /\ tf_object = Nil
    /\ start_dt = NoneDt
    /\ end_dt = NoneDt
    /\ symbol_list = <<>>
    /\ request = NoRequest
    /\ providerLog = <<>>
    /\ bars = Nil
    /\ df = NoDf
    /\ outcome = NoOutcome

\* GET /stocks
get_all_stocks ==
    /\ pc = "idle"
    /\ \E exchange \in Exchanges :
          /\ req' = [endpoint |-> "get_all_stocks", exchange |-> exchange]
          /\ providerLog' =
                Append(providerLog, [method |-> "stock_symbols",
                                     exchange |-> upper(exchange), mic |-> "XNAS"])
          /\ \/ \E stocks \in StockLists :
                   /\ bars' = Value(stocks)
                   /\ outcome' = Return(stocks)
             \/ \E e \in FinnhubErrors :
                   /\ bars' = Raise(e)
                   /\ outcome' =
                         Uncaught(HTTPException_detail_only(
                             <<"Error fetching stocks from US: ">> \o e))
    /\ pc' = "done"
    /\ UNCHANGED <<tfStr, tfOut, tf_object, start_dt, end_dt, symbol_list, request, df>>

\* GET /profile/{symbol}
get_company_profile ==
    /\ pc = "idle"
    /\ \E symbol \in ProfileSymbols :
          LET retry == LoadGlobal("retry_api_call")
          IN  /\ req' = [endpoint |-> "get_company_profile", symbol |-> symbol]
              /\ retry.kind = "NameError"
              /\ outcome' = HTTPException(500,
                                <<"Error fetching profile for ">> \o symbol
                                \o <<": ">> \o retry.msg)
              /\ UNCHANGED <<providerLog, bars>>
    /\ pc' = "done"
    /\ UNCHANGED <<tfStr, tfOut, tf_object, start_dt, end_dt, symbol_list, request, df>>

\* the request is answered; the endpoints take the next one
FinnhubFinish ==
    /\ pc = "done"
    /\ pc' = "idle"
    /\ req' = Nil
    /\ providerLog' = <<>>
    /\ bars' = Nil
    /\ outcome' = NoOutcome
    /\ UNCHANGED <<tfStr, tfOut, tf_object, start_dt, end_dt, symbol_list, request, df>>

NextFinnhub ==
    \/ get_all_stocks
    \/ get_company_profile
    \/ FinnhubFinish

SpecFinnhub == InitFinnhub /\ [][NextFinnhub]_vars

(***************************************************************************)
(* Properties.                                                             *)
(***************************************************************************)
\* sub occurs in s as a contiguous run
Contains(s, sub) ==
    \E i \in 0..(Len(s) - Len(sub)) : SubSeq(s, i + 1, i + Len(sub)) = sub

LeadingDigits(s) == SubSeq(s, 1, DigitRun(s, 1))
AfterDigits(s) == SubSeq(s, DigitRun(s, 1) + 1, Len(s))

\* <integer><unit token> as a whole, unit token one of Min, Hour, Day, Week, Month
WholeForm(s) ==
    /\ DigitRun(s, 1) >= 1
    /\ \E k \in 1..Len(UnitTokens) : AfterDigits(s) = UnitTokens[k]

\* <positive integer><unit token> as a whole
MatchesPattern(s) == WholeForm(s) /\ int(LeadingDigits(s)) > 0

\* the unit a unit token stands for
UnitOfToken(tok) ==
    CASE tok = <<"M", "i", "n">> -> "Minute"
      [] tok = <<"H", "o", "u", "r">> -> "Hour"
      [] tok = <<"D", "a", "y">> -> "Day"
      [] tok = <<"W", "e", "e", "k">> -> "Week"
      [] tok = <<"M", "o", "n", "t", "h">> -> "Month"

Parsed == tfOut.kind # "Pending"

\* C1: every string that is not <positive integer><unit token> as a whole makes
\* parse_timeframe fail with the invalid-format error and return no Interval.
\* (Stated for the strings whose leading digits do not denote zero; those are C10's.)
C1_NonMatchingRejected ==
    (/\ Parsed
     /\ ~MatchesPattern(tfStr)
     /\ ~(DigitRun(tfStr, 1) >= 1 /\ int(LeadingDigits(tfStr)) = 0))
    => (tfOut.kind = "ValueError" /\ tfOut.err = "InvalidFormat")

SdkAdmits(amount, unit) ==
    CASE unit = "Minute" -> amount \in 1..59
      [] unit = "Hour" -> amount \in 1..23
      [] unit \in {"Day", "Week"} -> amount = 1
      [] unit = "Month" -> amount \in {1, 2, 3, 6, 12}

C10_IntervalInvariant ==
    /\ tfOut.kind = "TimeFrame"
       => (tfOut.amount > 0 /\ tfOut.unit \in TimeFrameUnits)
    /\ (Parsed /\ DigitRun(tfStr, 1) >= 1 /\ int(LeadingDigits(tfStr)) = 0)
       => tfOut.kind = "ValueError"

C10_Witness ==
    /\ tfStr = <<"0", "0", "D", "a", "y">>
    /\ tfOut.kind = "ValueError"

Done == pc = "done"

\* the call got past the handler's checks of its inputs
InputsValid ==
    /\ req.kind = "call"
    /\ parse_timeframe(req.timeframe).kind = "TimeFrame"
    /\ optional_fromisoformat(req.start).kind # "ValueError"
    /\ optional_fromisoformat(req.end).kind # "ValueError"
    /\ InvalidOptions(req.adjustment, req.sort, req.feed) = <<>>

BadRequest == outcome.kind = "HTTPException" /\ outcome.status_code = 400

MalformedTimestamp(o) == Truthy(o) /\ fromisoformat(o.text).kind = "ValueError"

\* the call's other parameters are well-formed
OtherInputsValid ==
    /\ ~MalformedTimestamp(req.start)
    /\ ~MalformedTimestamp(req.end)
    /\ req.adjustment \in {"raw", "split", "dividend", "all"}
    /\ req.sort \in {"asc", "desc"}

\* C2: a call with a malformed interval (its other parameters well-formed) ends in
\* BadRequest (HTTP 400) and the provider is never invoked in it.
C2_MalformedIntervalNoProviderCall ==
    /\ (req.kind = "call" /\ ~MatchesPattern(req.timeframe) /\ OtherInputsValid)
       => providerLog = <<>>
    /\ (Done /\ ~MatchesPattern(req.timeframe) /\ OtherInputsValid)
       => BadRequest

\* C4: the keys of every successful result are exactly the normalized requested
\* symbols, whatever rows the provider returned.
C4_KeysAreRequestedSymbols ==
    (Done /\ outcome.kind = "return")
    => DOMAIN outcome.output = SymbolSet(normalize_symbols(req.symbols))

C4_Witness ==
    /\ Done
    /\ outcome.kind = "return"
    /\ symbol_list = <<AAPL, TSLA>>
    /\ has_symbol_level(df)
    /\ Len(outcome.output[AAPL]) = MaxRows
    /\ outcome.output[TSLA] = <<>>

\* C5: a call whose symbols normalize to none returns an empty mapping, never an
\* error, however the provider reacts to an empty symbol list.
C5_NoSymbolsEmptyMapping ==
    (Done /\ MatchesPattern(req.timeframe) /\ InputsValid /\ normalize_symbols(req.symbols) = <<>>)
    => (outcome.kind = "return" /\ DOMAIN outcome.output = {})

\* C6: a present, malformed start or end makes the call fail with BadRequest
\* carrying the parse error detail, not with an unhandled failure.
C6_MalformedTimestampBadRequest ==
    (/\ Done
     /\ MatchesPattern(req.timeframe)
     /\ tf_object.kind = "TimeFrame"
     /\ (MalformedTimestamp(req.start) \/ MalformedTimestamp(req.end)))
    => /\ BadRequest
       /\ \/ (MalformedTimestamp(req.start)
              /\ Contains(outcome.detail, fromisoformat(req.start.text).msg))
          \/ (MalformedTimestamp(req.end)
              /\ Contains(outcome.detail, fromisoformat(req.end.text).msg))

\* C7: when the provider call raises, the call ends in the upstream-error outcome
\* (HTTP 500) whose message contains the provider's error text verbatim.
C7_UpstreamErrorCarriesProviderText ==
    (Done /\ bars.kind = "APIError")
    => /\ outcome.kind = "HTTPException"
       /\ outcome.status_code = 500
       /\ Contains(outcome.detail, bars.text)

C7_Witness ==
    /\ Done
    /\ bars.kind = "APIError"
    /\ bars.text = <<"too many requests.">>
    /\ outcome.kind = "HTTPException"

\* C8: a malformed adjustment or sort makes the call fail with BadRequest echoing
\* the offending input, an outcome distinct from the one a provider failure has.
C8_MalformedOptionBadRequest ==
    (/\ Done
     /\ MatchesPattern(req.timeframe)
     /\ tf_object.kind = "TimeFrame"
     /\ ~MalformedTimestamp(req.start)
     /\ ~MalformedTimestamp(req.end)
     /\ (req.adjustment \notin {"raw", "split", "dividend", "all"}
         \/ req.sort \notin {"asc", "desc"}))
    => /\ BadRequest
       /\ \/ Contains(outcome.detail, <<req.adjustment>>)
          \/ Contains(outcome.detail, <<req.sort>>)

\* C9: a call whose inputs pass validation issues exactly one provider call, which
\* carries all normalized symbols; no call is ever followed by a second one.
C9_ExactlyOneProviderCall ==
    /\ Len(providerLog) <= 1
    /\ (pc \in {"partition", "done"} /\ InputsValid)
       => /\ Len(providerLog) = 1
          /\ providerLog[1].symbol_or_symbols = normalize_symbols(req.symbols)

C9_Witness ==
    /\ Done
    /\ InputsValid
    /\ bars.kind = "APIError"
    /\ Len(providerLog) = 1
    /\ providerLog[1].symbol_or_symbols = <<AAPL, TSLA>>

\* the positions at which a comma-separated piece of s starts
PieceStarts(s) == {1} \cup {i + 1 : i \in {j \in 1..Len(s) : s[j] = ","}}

\* the position of the last character of the piece that starts at a
PieceEnd(s, a) ==
    LET stops == {i \in a..Len(s) : s[i] = ","} \cup {Len(s) + 1}
    IN  (CHOOSE i \in stops : \A j \in stops : i <= j) - 1

\* the positions of the piece starting at a that hold no whitespace
Inked(s, a) == {i \in a..PieceEnd(s, a) : s[i] \notin {" ", "\t", "\n"}}

\* the piece starting at a without its surrounding whitespace, in upper case
TrimmedUpper(s, a) ==
    LET lo == CHOOSE i \in Inked(s, a) : \A j \in Inked(s, a) : i <= j
        hi == CHOOSE i \in Inked(s, a) : \A j \in Inked(s, a) : i >= j
    IN  [k \in 1..(hi - lo + 1) |-> UpperChar(s[lo + k - 1])]

\* the normalized symbols of the raw string s, in input order
ExpectedSymbols(s) ==
    LET kept == {a \in PieceStarts(s) : Inked(s, a) # {}}
    IN  [k \in 1..Cardinality(kept) |->
            TrimmedUpper(s, CHOOSE a \in kept :
                                Cardinality({b \in kept : b < a}) = k - 1)]

\* C11: symbol normalization splits on commas, strips each piece, drops the pieces
\* that are empty after stripping and uppercases the rest, in input order;
\* " aapl, ,tsla," yields ["AAPL", "TSLA"].
C11_SymbolNormalization ==
    /\ pc \in {"build", "provider", "partition"}
       => symbol_list = ExpectedSymbols(req.symbols)
    /\ (pc \in {"build", "provider", "partition"}
        /\ req.symbols = <<" ", "a", "a", "p", "l", ",", " ", ",", "t", "s", "l", "a", ",">>)
       => symbol_list = <<AAPL, TSLA>>
    /\ request.kind = "StockBarsRequest"
       => request.symbol_or_symbols = ExpectedSymbols(req.symbols)

C11_Witness ==
    /\ pc = "provider"
    /\ req.symbols = <<" ", "a", "a", "p", "l", ",", " ", ",", "t", "s", "l", "a", ",">>
    /\ request.symbol_or_symbols = <<AAPL, TSLA>>

\* C12: when interval parsing fails, the BadRequest outcome carries the original
\* interval string in its message; a provider request is only ever built with the
\* Interval that parsing the caller's string produced.
C12_ParseFailureEchoesInterval ==
    /\ (Done /\ tf_object.kind # "TimeFrame")
       => (BadRequest /\ Contains(outcome.detail, req.timeframe))
    /\ request.kind = "StockBarsRequest"
       => /\ request.timeframe.amount = int(LeadingDigits(req.timeframe))
          /\ \E k \in 1..Len(UnitTokens) :
                /\ StartsWith(AfterDigits(req.timeframe), UnitTokens[k])
                /\ request.timeframe.unit = UnitOfToken(UnitTokens[k])

\* the rows of the table that carry symbol y (the table has a symbol level)
RowsOf(frame, y) == {i \in 1..Len(frame.index) : frame.index[i][1] = y}

\* C13: every requested symbol that has no row among the rows the provider
\* returned is a key of the successful result with an empty sequence, also when
\* other requested symbols have rows.
C13_SymbolWithoutRowsIsEmpty ==
    (Done /\ outcome.kind = "return" /\ (empty(df) \/ df.names[1] = "symbol"))
    => \A i \in 1..Len(symbol_list) :
          (empty(df) \/ RowsOf(df, symbol_list[i]) = {})
          => /\ symbol_list[i] \in DOMAIN outcome.output
             /\ outcome.output[symbol_list[i]] = <<>>

C13_Witness ==
    /\ Done
    /\ outcome.kind = "return"
    /\ symbol_list = <<TSLA, AAPL>>
    /\ df.names[1] = "symbol"
    /\ RowsOf(df, AAPL) = {}
    /\ Len(outcome.output[TSLA]) = 1
    /\ outcome.output[AAPL] = <<>>

\* the canonical string of an Interval: the amount in decimal, then the unit token
DigitChar(d) ==
    CASE d = 0 -> "0" [] d = 1 -> "1" [] d = 2 -> "2" [] d = 3 -> "3" [] d = 4 -> "4"
      [] d = 5 -> "5" [] d = 6 -> "6" [] d = 7 -> "7" [] d = 8 -> "8" [] d = 9 -> "9"

RECURSIVE Decimal(_)
Decimal(n) ==
    IF n < 10 THEN <<DigitChar(n)>> ELSE Append(Decimal(n \div 10), DigitChar(n % 10))

TokenOfUnit(unit) ==
    CASE unit = "Minute" -> <<"M", "i", "n">>
      [] unit = "Hour" -> <<"H", "o", "u", "r">>
      [] unit = "Day" -> <<"D", "a", "y">>
      [] unit = "Week" -> <<"W", "e", "e", "k">>
      [] unit = "Month" -> <<"M", "o", "n", "t", "h">>

Encode(amount, unit) == Decimal(amount) \o TokenOfUnit(unit)

RoundTripAmounts == {1, 2, 100}

Cause ==
    LET tf == parse_timeframe(req.timeframe)
        s == optional_fromisoformat(req.start)
        e == optional_fromisoformat(req.end)
        bad == InvalidOptions(req.adjustment, req.sort, req.feed)
    IN  IF tf.kind = "ValueError" THEN tf.msg
        ELSE IF s.kind = "ValueError" THEN s.msg
        ELSE IF e.kind = "ValueError" THEN e.msg
        ELSE IF bad # <<>> THEN bad
        ELSE IF bars.kind = "APIError" THEN bars.text
        ELSE <<>>

\* the text an error outcome carries
ErrorText(o) == IF o.kind = "HTTPException" THEN o.detail ELSE o.exc.msg

\* C15: a call is all-or-nothing: when something fails the call ends in an error
\* (an HTTPException or the exception that leaves the handler) whose text holds the
\* text of the cause and it returns no mapping; when nothing fails it returns a
\* mapping with a key for every requested symbol.
C15_AllOrNothing ==
    Done =>
        /\ outcome.kind \in {"return", "HTTPException", "uncaught"}
        /\ Cause # <<>> =>
              /\ outcome.kind \in {"HTTPException", "uncaught"}
              /\ Contains(ErrorText(outcome), Cause)
        /\ Cause = <<>> =>
              /\ outcome.kind = "return"
              /\ bars.kind = "BarSet"
              /\ DOMAIN outcome.output = SymbolSet(ExpectedSymbols(req.symbols))

C15_Witness ==
    /\ Done
    /\ MatchesPattern(req.timeframe)
    /\ req.adjustment = "bogus"
    /\ symbol_list = <<AAPL, TSLA>>
    /\ bars = Nil
    /\ outcome.kind = "HTTPException"
    /\ Contains(outcome.detail, <<"adjustment", " input_value=", "bogus">>)

\* C16: the request handed to the provider has no start (no end) when the call
\* gave none, and has exactly the instant the call's well-formed start (end)
\* denotes otherwise; no default window is put in its place.
C16_OpenBoundsPassThrough ==
    \A i \in 1..Len(providerLog) :
        /\ ~req.start.present => providerLog[i].start = NoneDt
        /\ ~req.end.present => providerLog[i].end = NoneDt
        /\ req.start = Some(<<"2", "0", "2", "4", "-", "0", "1", "-", "1", "5">>)
           => providerLog[i].start =
                 [kind |-> "datetime", year |-> 2024, month |-> 1, day |-> 15,
                  hour |-> 0, minute |-> 0, second |-> 0]
        /\ req.end = Some(<<"2", "0", "2", "4", "-", "0", "2", "-", "2", "9", "T",
                            "0", "9", ":", "3", "0", ":", "0", "0">>)
           => providerLog[i].end =
                 [kind |-> "datetime", year |-> 2024, month |-> 2, day |-> 29,
                  hour |-> 9, minute |-> 30, second |-> 0]
        /\ (req.start.present /\ providerLog[i].start # NoneDt)
           => req.start.text # <<>>
        /\ (req.end.present /\ providerLog[i].end # NoneDt)
           => req.end.text # <<>>

C16_Witness ==
    /\ Len(providerLog) = 1
    /\ ~req.start.present
    /\ req.end.present
    /\ providerLog[1].start = NoneDt
    /\ providerLog[1].end.kind = "datetime"
    /\ providerLog[1].end.day = 29

\* the k-th row of the table that carries symbol y, counted in the table's order
KthRowOf(frame, y, k) ==
    CHOOSE i \in RowsOf(frame, y) : Cardinality({j \in RowsOf(frame, y) : j < i}) = k - 1

\* C17: in a successful result the sequence of a symbol holds the rows of that
\* symbol, each once, in the order in which the provider returned them: over a
\* table whose rows name their symbol exactly the rows that name it, over a table
\* without a symbol level the rows of the table one after the other.
C17_PartitionKeepsOrder ==
    (Done /\ outcome.kind = "return" /\ ~empty(df))
    => \A y \in DOMAIN outcome.output :
          IF df.names[1] = "symbol"
          THEN /\ Len(outcome.output[y]) = Cardinality(RowsOf(df, y))
               /\ \A k \in 1..Len(outcome.output[y]) :
                     /\ outcome.output[y][k].symbol = y
                     /\ outcome.output[y][k].timestamp
                           = df.index[KthRowOf(df, y, k)][2]
          ELSE /\ Len(outcome.output[y]) = Len(df.index)
               /\ \A k \in 1..Len(df.index) :
                     outcome.output[y][k].timestamp = df.index[k][1]

C17_Witness ==
    /\ Done
    /\ outcome.kind = "return"
    /\ symbol_list = <<AAPL, TSLA>>
    /\ df.index = <<<<AAPL, 2>>, <<AAPL, 1>>>>
    /\ outcome.output[AAPL] = << [symbol |-> AAPL, timestamp |-> 2],
                                 [symbol |-> AAPL, timestamp |-> 1] >>

\* C20: when the table the provider returned has no symbol level and one symbol
\* was requested, the result has that symbol as its only key and its sequence
\* holds every row of the table, one after the other.
C20_UnlabelledRowsGoToSoleSymbol ==
    (Done /\ outcome.kind = "return" /\ ~has_symbol_level(df) /\ Len(symbol_list) = 1)
    => /\ DOMAIN outcome.output = {symbol_list[1]}
       /\ Len(outcome.output[symbol_list[1]]) = Len(df.index)
       /\ \A k \in 1..Len(df.index) :
             outcome.output[symbol_list[1]][k] = [timestamp |-> df.index[k][1]]

C20_Witness ==
    /\ Done
    /\ outcome.kind = "return"
    /\ req.symbols = <<"a", "a", "p", "l">>
    /\ df = DataFrame(<<"timestamp">>, <<<<1>>, <<2>>>>)
    /\ outcome.output = (AAPL :> <<[timestamp |-> 1], [timestamp |-> 2]>>)

\* what a call with parameters r ends in when it runs alone and the provider
\* answers it with resp
SoloOutcome(r, resp) ==
    LET tf == parse_timeframe(r.timeframe)
        s == optional_fromisoformat(r.start)
        e == optional_fromisoformat(r.end)
        list == ExpectedSymbols(r.symbols)
        bad == InvalidOptions(r.adjustment, r.sort, r.feed)
    IN  IF tf.kind = "ValueError" THEN HTTPException(400, tf.msg)
        ELSE IF s.kind = "ValueError" THEN Uncaught(s)
        ELSE IF e.kind = "ValueError" THEN Uncaught(e)
        ELSE IF bad # <<>>
        THEN HTTPException(500, <<"Alpaca SDK error: ",
                                  "validation error for StockBarsRequest: ">> \o bad)
        ELSE IF resp.kind = "APIError"
        THEN HTTPException(500, <<"Alpaca SDK error: ">> \o resp.text)
        ELSE Return(partition(resp.df, list))

\* C18: under every interleaving of the calls in flight on the shared client, a
\* call that has ended has the outcome it would have alone with the same
\* parameters and the same answer of the provider.
C18_ConcurrentCallsDoNotInterfere ==
    \A c \in Calls :
        pc[c] = "done" => outcome[c] = SoloOutcome(req[c], bars[c])

C18_Witness ==
    /\ pc[1] = "done"
    /\ pc[2] = "done"
    /\ req[1].symbols = AAPL \o <<",">> \o TSLA
    /\ req[2].symbols = <<"a", "a", "p", "l">>
    /\ Len(providerLog) = 2
    /\ providerLog[1].symbol_or_symbols = <<AAPL>>
    /\ providerLog[2].symbol_or_symbols = <<AAPL, TSLA>>
    /\ outcome[1].kind = "return"
    /\ DOMAIN outcome[1].output = {AAPL, TSLA}
    /\ outcome[2] = HTTPException(500, <<"Alpaca SDK error: ", "forbidden.">>)

\* the record of row i of the table, as the result carries it
RecordOf(table, i) == to_records(table)[i]

\* the keys of the result under which the record of row i occurs
KeysHolding(i) ==
    {y \in DOMAIN outcome.output :
        \E k \in 1..Len(outcome.output[y]) : outcome.output[y][k] = RecordOf(df, i)}

\* C21: in a successful result every row the provider returned occurs under at
\* most one symbol key, and under no key but that of the symbol the row names;
\* also when several symbols are requested and the table has no symbol level.
C21_RowUnderAtMostOneKey ==
    (Done /\ outcome.kind = "return")
    => \A i \in 1..Len(df.index) :
          /\ Cardinality(KeysHolding(i)) <= 1
          /\ has_symbol_level(df) => KeysHolding(i) \subseteq {df.index[i][symbol_level(df)]}

\* the sequence without the later occurrences of an element it already holds
RECURSIVE Distinct(_)
Distinct(list) ==
    IF list = <<>> THEN <<>>
    ELSE LET front == Distinct(SubSeq(list, 1, Len(list) - 1))
             last == list[Len(list)]
         IN  IF last \in SymbolSet(front) THEN front ELSE Append(front, last)

\* C22: the request the provider receives carries the distinct normalized symbols
\* in first-seen order, a symbol repeated in the raw input once; the result has one
\* key for it.
C22_RequestSymbolsDistinct ==
    /\ \A i \in 1..Len(providerLog) :
          providerLog[i].symbol_or_symbols = Distinct(ExpectedSymbols(req.symbols))
    /\ (Done /\ outcome.kind = "return")
       => DOMAIN outcome.output = SymbolSet(Distinct(ExpectedSymbols(req.symbols)))

\* a and b are the same letters, not all in the same case
OtherCase(a, b) ==
    /\ Len(a) = Len(b)
    /\ a # b
    /\ \A i \in 1..Len(a) : UpperChar(a[i]) = UpperChar(b[i])

\* s differs from a valid interval string by the case of the unit token only, by
\* a leading blank only, or by a separator between digits and unit only
NearValid(s) ==
    \/ /\ DigitRun(s, 1) >= 1
       /\ \E k \in 1..Len(UnitTokens) : OtherCase(AfterDigits(s), UnitTokens[k])
    \/ /\ DigitRun(s, 1) >= 1
       /\ \E k \in 1..Len(UnitTokens), sep \in {" ", "-"} :
             AfterDigits(s) = <<sep>> \o UnitTokens[k]
    \/ /\ s # <<>>
       /\ s[1] = " "
       /\ WholeForm(Tail(s))

\* C23: parse_timeframe is case-sensitive and separator-free: "15min", "1DAY",
\* " 15Min", "15 Min", "15-Min", and every string that differs from a valid one
\* in one of these ways only, is rejected with the invalid-format error.
C23_NearValidRejected ==
    tfOut # Pending
    => /\ NearValid(tfStr) => (tfOut.kind = "ValueError" /\ tfOut.err = "InvalidFormat")
       /\ tfStr \in { <<"1", "5", "m", "i", "n">>, <<"1", "D", "A", "Y">>,
                      <<" ", "1", "5", "M", "i", "n">>,
                      <<"1", "5", " ", "M", "i", "n">>,
                      <<"1", "5", "-", "M", "i", "n">> }
          => (NearValid(tfStr) /\ tfOut.kind = "ValueError")

C23_Witness ==
    /\ tfStr = <<"1", "5", "-", "M", "i", "n">>
    /\ tfOut.kind = "ValueError"
    /\ tfOut.err = "InvalidFormat"
    /\ Contains(tfOut.msg, tfStr)

\* the pattern has a match at the start of s: digits, then a unit token
PrefixMatches(s) ==
    /\ DigitRun(s, 1) >= 1
    /\ \E k \in 1..Len(UnitTokens) : StartsWith(AfterDigits(s), UnitTokens[k])

\* C24: the invalid-unit error of parse_timeframe is unreachable: no input ends
\* in it, and whenever the pattern matches the outcome is an Interval or the
\* error of the TimeFrame constructor.
C24_InvalidUnitUnreachable ==
    tfOut # Pending
    => /\ ~(tfOut.kind = "ValueError" /\ tfOut.err = "InvalidUnit")
       /\ PrefixMatches(tfStr)
          => \/ tfOut.kind = "TimeFrame"
             \/ tfOut.kind = "ValueError" /\ tfOut.err = "SdkValidation"

C24_Witness ==
    /\ tfStr = <<"2", "M", "o", "n", "t", "h", "s">>
    /\ PrefixMatches(tfStr)
    /\ tfOut = [kind |-> "TimeFrame", amount |-> 2, unit |-> "Month"]

\* the call has a malformed start or end
SomeTimestampMalformed == MalformedTimestamp(req.start) \/ MalformedTimestamp(req.end)

\* C25: validation is ordered, the interval first, then the timestamps, then the
\* provider call: a call with a malformed interval and a malformed timestamp ends
\* in the interval error (HTTP 400), a call with a malformed timestamp never
\* reaches the provider, and no call that ends in a validation failure has
\* invoked the provider.
C25_ValidationOrder ==
    /\ (Done /\ ~MatchesPattern(req.timeframe) /\ SomeTimestampMalformed)
       => BadRequest
    /\ (req.kind = "call" /\ SomeTimestampMalformed) => providerLog = <<>>
    /\ (Done /\ ~InputsValid) => providerLog = <<>>

\* C26: the two call sites of get_stock_bars are equivalent: on the same query
\* parameters and the same answer or failure of the provider both end in the same
\* outcome (same kind, same status and message, same mapping of symbols to rows),
\* having handed the provider the same requests.
C26_CallSitesEquivalent ==
    (pc["main"] = "done" /\ pc["router"] = "done")
    => /\ outcome["main"] = outcome["router"]
       /\ providerLog["main"] = providerLog["router"]

C26_Witness ==
    /\ pc["main"] = "done"
    /\ pc["router"] = "done"
    /\ symbol_list["router"] = <<TSLA, AAPL>>
    /\ bars.kind = "BarSet"
    /\ bars.df.index = <<<<AAPL, 1>>, <<TSLA, 2>>>>
    /\ outcome["router"].kind = "return"
    /\ outcome["main"].output[TSLA] = <<[symbol |-> TSLA, timestamp |-> 2]>>
    /\ outcome["router"].output[TSLA] = <<[symbol |-> TSLA, timestamp |-> 2]>>

\* C27: every trading pass-through endpoint turns an exception of the trading
\* provider into HTTP 500 with the provider's message in the detail, and returns
\* a success payload only when the provider call returned; cancel_order reports
\* "cancelled" with the given order_id only then.
C27_TradingPassThrough ==
    (Done /\ req.endpoint \in {"get_account", "get_positions", "get_orders",
                               "place_order", "cancel_order", "get_assets"})
    => /\ bars.kind = "raise"
          => /\ outcome.kind = "HTTPException"
             /\ outcome.status_code = 500
             /\ Contains(outcome.detail, bars.text)
       /\ outcome.kind = "return" => bars.kind = "value"
       /\ (req.endpoint = "cancel_order" /\ bars.kind = "value")
          => outcome = Return([status |-> "cancelled", order_id |-> req.order_id])
       /\ (req.endpoint = "cancel_order" /\ bars.kind # "value")
          => outcome.kind # "return"

C27_Witness ==
    /\ Done
    /\ req = [endpoint |-> "cancel_order", order_id |-> "o2"]
    /\ bars = Raise(<<"forbidden.">>)
    /\ outcome = HTTPException(500, <<"forbidden.">>)

\* C28: place_order submits at most one order per request, also when the
\* provider fails, and the order submitted carries the payload's symbol in upper
\* case, its side in lower case, and qty, type and time_in_force unchanged.
C28_AtMostOneOrder ==
    (Done /\ req.endpoint = "place_order")
    => /\ Len(providerLog) <= 1
       /\ bars.kind \in {"raise", "value"} => Len(providerLog) = 1
       /\ \A i \in 1..Len(providerLog) :
             LET sent == providerLog[i].order_data
                 payload == req.payload
             IN  /\ providerLog[i].method = "submit_order"
                 /\ Len(sent.symbol) = Len(payload.symbol)
                 /\ payload.symbol = <<"a", "a", "p", "l">> => sent.symbol = AAPL
                 /\ payload.symbol = <<"T", "s", "l", "a">> => sent.symbol = TSLA
                 /\ payload.side = <<"S", "E", "L", "L">>
                    => sent.side = <<"s", "e", "l", "l">>
                 /\ payload.side = <<"b", "u", "y">> => sent.side = <<"b", "u", "y">>
                 /\ sent.qty = payload.qty
                 /\ sent.type = payload.type
                 /\ sent.time_in_force = payload.time_in_force

C28_Witness ==
    /\ Done
    /\ req.endpoint = "place_order"
    /\ req.site = "router"
    /\ req.payload = [symbol |-> <<"T", "s", "l", "a">>, qty |-> 10,
                      side |-> <<"S", "E", "L", "L">>, type |-> "limit",
                      time_in_force |-> "gtc"]
    /\ bars = Raise(<<"insufficient buying power">>)
    /\ Len(providerLog) = 1
    /\ providerLog[1].order_data.side = <<"s", "e", "l", "l">>
    /\ providerLog[1].order_data.symbol = TSLA

\* C29: the provider having a profile for every symbol, get_company_profile(symbol)
\* asks the provider for the upper-cased symbol and answers with the upper-cased
\* symbol and the profile the provider has for it.
C29_ProfileReturned ==
    (Done /\ req.endpoint = "get_company_profile")
    => /\ providerLog = << [method |-> "company_profile2",
                            symbol |-> upper(req.symbol)] >>
       /\ outcome = Return([symbol |-> upper(req.symbol),
                            profile |-> company_profile2(upper(req.symbol))])

\* C30: when the provider call of get_all_stocks fails, the endpoint ends in an
\* HTTP error whose detail is "Error fetching stocks from US: " followed by the
\* provider's message; building that error does not itself fail.
C30_StocksErrorOutcome ==
    (Done /\ req.endpoint = "get_all_stocks" /\ bars.kind = "raise")
    => /\ outcome.kind = "HTTPException"
       /\ outcome.detail = <<"Error fetching stocks from US: ">> \o bars.text

====
